---- MODULE Spec2Model ----
(***************************************************************************)
(* tpchgen-cli: the generation plan (plan.rs), the table driver (main.rs)  *)
(* and the ordered worker pool that delivers chunks to a sink.             *)
(*                                                                         *)
(* Rust integers keep their width.  TLC's own integers are 32 bit and stop *)
(* on overflow, so every value that can leave the i32 range (a usize, an   *)
(* i64, the exact result of an i32 product) is a little-endian sequence of *)
(* base-256 digits without leading zeros, optionally with a sign.          *)
(***************************************************************************)
EXTENDS Integers, Sequences, FiniteSets, TLC

(***************************************************************************)
(* Natural numbers of any size: little-endian base-256 digit sequences.    *)
(***************************************************************************)
RECURSIVE NatDigits(_)
NatDigits(n) ==
    IF n = 0 THEN <<>> ELSE <<n % 256>> \o NatDigits(n \div 256)

RECURSIVE Norm(_)
Norm(d) ==
    IF d = <<>> THEN <<>>
    ELSE IF d[Len(d)] = 0 THEN Norm(SubSeq(d, 1, Len(d) - 1))
    ELSE d

\* d padded with zeros, or cut, to exactly n digits (the low n bytes).
Fit(d, n) ==
    [i \in 1..n |-> IF i <= Len(d) THEN d[i] ELSE 0]

RECURSIVE DigitsAddC(_, _, _)
DigitsAddC(x, y, c) ==
    IF x = <<>> /\ y = <<>> THEN (IF c = 0 THEN <<>> ELSE <<c>>)
    ELSE LET a == IF x = <<>> THEN 0 ELSE Head(x)
             b == IF y = <<>> THEN 0 ELSE Head(y)
             s == a + b + c
         IN  <<s % 256>> \o DigitsAddC(IF x = <<>> THEN <<>> ELSE Tail(x),
                                       IF y = <<>> THEN <<>> ELSE Tail(y),
                                       s \div 256)

DigitsAdd(x, y) == Norm(DigitsAddC(x, y, 0))

\* x - 1 for x > 0.
RECURSIVE DigitsDecC(_)
DigitsDecC(x) ==
    IF Head(x) > 0 THEN <<Head(x) - 1>> \o Tail(x)
    ELSE <<255>> \o DigitsDecC(Tail(x))

DigitsDec(x) == Norm(DigitsDecC(x))

RECURSIVE DigitsMulSmallC(_, _, _)
DigitsMulSmallC(x, m, c) ==
    IF x = <<>> THEN NatDigits(c)
    ELSE LET v == Head(x) * m + c
         IN  <<v % 256>> \o DigitsMulSmallC(Tail(x), m, v \div 256)

\* x * y, schoolbook, one digit of x at a time.
RECURSIVE DigitsMul(_, _)
DigitsMul(x, y) ==
    IF x = <<>> THEN <<>>
    ELSE DigitsAdd(Norm(DigitsMulSmallC(y, Head(x), 0)),
                   IF DigitsMul(Tail(x), y) = <<>> THEN <<>>
                   ELSE <<0>> \o DigitsMul(Tail(x), y))

\* floor(x / k) for a divisor 0 < k < 2^27: long division from the top digit, each
\* byte taken as two half-bytes so that no intermediate value leaves 32 bits.
RECURSIVE DigitsDivFrom(_, _, _, _)
DigitsDivFrom(x, k, i, rem) ==
    IF i = 0 THEN <<>>
    ELSE LET hi == rem * 16 + (x[i] \div 16)
             lo == (hi % k) * 16 + (x[i] % 16)
         IN  DigitsDivFrom(x, k, i - 1, lo % k) \o <<(hi \div k) * 16 + (lo \div k)>>

DigitsDivSmall(x, k) == Norm(DigitsDivFrom(x, k, Len(x), 0))

\* x < y for normalised digit sequences.
RECURSIVE DigitsLessFrom(_, _, _)
DigitsLessFrom(x, y, i) ==
    IF i = 0 THEN FALSE
    ELSE IF x[i] # y[i] THEN x[i] < y[i]
    ELSE DigitsLessFrom(x, y, i - 1)

DigitsLess(x, y) ==
    IF Len(x) # Len(y) THEN Len(x) < Len(y) ELSE DigitsLessFrom(x, y, Len(x))

\* The value of a digit sequence below 2^31.
RECURSIVE DigitsToInt(_)
DigitsToInt(d) ==
    IF d = <<>> THEN 0 ELSE Head(d) + 256 * DigitsToInt(Tail(d))

Complement(d) == [i \in 1..Len(d) |-> 255 - d[i]]

(***************************************************************************)
(* Signed numbers of any size: [neg, mag], zero never negative.            *)
(***************************************************************************)
Signed(neg, mag) == [neg |-> neg /\ mag # <<>>, mag |-> mag]

\* An i32 (a TLC integer) as a signed number; -(a + 1) avoids negating i32::MIN.
FromI32(a) ==
    IF a >= 0 THEN Signed(FALSE, NatDigits(a))
    ELSE Signed(TRUE, DigitsAdd(NatDigits(-(a + 1)), <<1>>))

SignedMul(x, y) == Signed(x.neg # y.neg, DigitsMul(x.mag, y.mag))

SignedInc(x) ==
    IF x.neg THEN Signed(TRUE, DigitsDec(x.mag))
    ELSE Signed(FALSE, DigitsAdd(x.mag, <<1>>))

\* Truncating division (Rust's /) by a small positive divisor.
SignedDivSmall(x, k) == Signed(x.neg, DigitsDivSmall(x.mag, k))

SignedLess(x, y) ==
    IF x.neg # y.neg THEN x.neg
    ELSE IF x.neg THEN DigitsLess(y.mag, x.mag)
    ELSE DigitsLess(x.mag, y.mag)

\* -2^(8n-1) <= x < 2^(8n-1): x is a value of the n-byte signed type.
FitsSigned(x, n) ==
    LET top == [i \in 1..n |-> IF i = n THEN 128 ELSE 0]
    IN  IF x.neg THEN ~DigitsLess(top, x.mag) ELSE DigitsLess(x.mag, top)

\* The n low bytes of x in two's complement.
TwosComplement(x, n) ==
    IF x.neg THEN Complement(Fit(DigitsDec(x.mag), n)) ELSE Fit(x.mag, n)

\* The signed value of n bytes read as two's complement.
FromTwosComplement(d) ==
    IF d[Len(d)] >= 128 THEN Signed(TRUE, DigitsAdd(Norm(Complement(d)), <<1>>))
    ELSE Signed(FALSE, Norm(d))

\* x reduced to the n-byte signed type, as wrapping arithmetic does.
WrapSigned(x, n) == FromTwosComplement(TwosComplement(x, n))

\* A signed number that fits an i32, as a TLC integer.
ToI32(x) ==
    IF x.neg THEN -DigitsToInt(DigitsDec(x.mag)) - 1 ELSE DigitsToInt(x.mag)

(***************************************************************************)
(* Rust arithmetic.  An overflowing i32 or i64 operation panics when the   *)
(* build has overflow checks (debug profile) and wraps when it has not     *)
(* (release profile); overflow_checks is the profile of the build.         *)
(***************************************************************************)
Checked(x, n, overflow_checks) ==
    IF FitsSigned(x, n) THEN [ok |-> TRUE, v |-> x]
    ELSE IF overflow_checks THEN [ok |-> FALSE, v |-> x]
    ELSE [ok |-> TRUE, v |-> WrapSigned(x, n)]

\* `num_threads as i32`: a usize keeps its low 32 bits, read as signed.
UsizeAsI32(u) == ToI32(FromTwosComplement(Fit(u, 4)))

\* RangeInclusive with the end left out, as start..end would be.
RangeExclusive(start, end) ==
    IF start >= end THEN <<>>
    ELSE [i \in 1..(end - start) |-> start + (i - 1)]

\* (start..=end).collect::<Vec<i32>>()
RangeInclusive(start, end) ==
    IF start > end THEN <<>>
    ELSE [i \in 1..(end - start + 1) |-> start + (i - 1)]

(***************************************************************************)
(* Tables and formats (main.rs).                                           *)
(***************************************************************************)
Table == {"nation", "region", "part", "supplier", "partsupp", "customer",
          "orders", "lineitem"}

OutputFormat == {"Tbl", "Csv", "Parquet"}

(***************************************************************************)
(* The generators' row count for part 1 of 1 (tpchgen crate): the table's  *)
(* scale base times the scale factor, rounded down.  A scale factor is the *)
(* fraction num / den.  partsupp counts parts, as the part generator does. *)
(***************************************************************************)
calculate_row_count(table, scale_factor) ==
    LET scale_base == CASE table = "part" -> 200000
                        [] table = "supplier" -> 10000
                        [] table = "partsupp" -> 200000
                        [] table = "customer" -> 150000
                        [] table = "orders" -> 1500000
    IN  Signed(FALSE,
               DigitsDivSmall(DigitsMul(NatDigits(scale_base), NatDigits(scale_factor.num)),
                              scale_factor.den))

(***************************************************************************)
(* GenerationPlan::new (plan.rs).                                          *)
(***************************************************************************)
Plan(part_count, part_list) ==
    [kind |-> "plan", part_count |-> part_count, part_list |-> part_list]

Panic(message) == [kind |-> "panic", message |-> message]

\* avg_row_size_bytes with the sizes of partsupp and customer exchanged.
avg_row_size_bytes_swapped(table) ==
    CASE table = "nation" -> 88
      [] table = "region" -> 77
      [] table = "part" -> 115
      [] table = "supplier" -> 140
      [] table = "partsupp" -> 160
      [] table = "customer" -> 148
      [] table = "orders" -> 114
      [] table = "lineitem" -> 128

avg_row_size_bytes(table) ==
    CASE table = "nation" -> 88
      [] table = "region" -> 77
      [] table = "part" -> 115
      [] table = "supplier" -> 140
      [] table = "partsupp" -> 148
      [] table = "customer" -> 160
      [] table = "orders" -> 114
      [] table = "lineitem" -> 128

\* The row count of the match at plan.rs:121, an i64, or a panic of `4 * ...`.
row_count(table, scale_factor, overflow_checks) ==
    CASE table \in {"nation", "region"} -> [ok |-> TRUE, v |-> FromI32(1)]
      [] table = "lineitem" ->
            Checked(SignedMul(FromI32(4), calculate_row_count("orders", scale_factor)),
                    8, overflow_checks)
      [] OTHER -> [ok |-> TRUE, v |-> calculate_row_count(table, scale_factor)]

target_chunk_size_bytes == 15 * 1024 * 1024

PARQUET_MAX_ROW_GROUPS == 32767

\* NewWithParts without the early return for nation and region.
NewWithPartsNoAtomic(table, cli_part, cli_part_count, num_threads, overflow_checks) ==
    IF cli_part < 1 \/ cli_part_count < 1 \/ cli_part > cli_part_count
    THEN Panic("Invalid CLI part or part count")
    ELSE
    LET num_chunks == UsizeAsI32(num_threads)
        new_total_parts ==
            Checked(SignedMul(FromI32(cli_part_count), FromI32(num_chunks)), 4, overflow_checks)
        start_product ==
            Checked(SignedMul(FromI32(cli_part - 1), FromI32(num_chunks)), 4, overflow_checks)
        start_part == Checked(SignedInc(start_product.v), 4, overflow_checks)
        end_part ==
            Checked(SignedMul(FromI32(cli_part), FromI32(num_chunks)), 4, overflow_checks)
    IN  IF ~new_total_parts.ok \/ ~start_product.ok \/ ~start_part.ok \/ ~end_part.ok
        THEN Panic("arithmetic overflow")
        ELSE Plan(ToI32(new_total_parts.v),
                  RangeInclusive(ToI32(start_part.v), ToI32(end_part.v)))

\* The branch taken when a part or a part count is given (plan.rs:73-114).
NewWithParts(table, cli_part, cli_part_count, num_threads, overflow_checks) ==
    IF table = "nation" \/ table = "region" THEN Plan(1, <<1>>)
    ELSE IF cli_part < 1 \/ cli_part_count < 1 \/ cli_part > cli_part_count
    THEN Panic("Invalid CLI part or part count")
    ELSE
    LET num_chunks == UsizeAsI32(num_threads)
        new_total_parts ==
            Checked(SignedMul(FromI32(cli_part_count), FromI32(num_chunks)), 4, overflow_checks)
        start_product ==
            Checked(SignedMul(FromI32(cli_part - 1), FromI32(num_chunks)), 4, overflow_checks)
        start_part == Checked(SignedInc(start_product.v), 4, overflow_checks)
        end_part ==
            Checked(SignedMul(FromI32(cli_part), FromI32(num_chunks)), 4, overflow_checks)
    IN  IF ~new_total_parts.ok \/ ~start_product.ok \/ ~start_part.ok \/ ~end_part.ok
        THEN Panic("arithmetic overflow")
        ELSE Plan(ToI32(new_total_parts.v),
                  RangeInclusive(ToI32(start_part.v), ToI32(end_part.v)))

\* NumParts without the + 1.
NumPartsNoPlusOne(rows, avg, overflow_checks) ==
    LET product == Checked(SignedMul(rows, FromI32(avg)), 8, overflow_checks)
    IN  IF ~product.ok THEN product
        ELSE [ok |-> TRUE, v |-> SignedDivSmall(product.v, target_chunk_size_bytes)]

\* ((row_count * avg_row_size_bytes) / target_chunk_size_bytes) + 1, in i64 (plan.rs:149).
NumParts(rows, avg, overflow_checks) ==
    LET product == Checked(SignedMul(rows, FromI32(avg)), 8, overflow_checks)
    IN  IF ~product.ok THEN product
        ELSE Checked(SignedInc(SignedDivSmall(product.v, target_chunk_size_bytes)),
                     8, overflow_checks)

\* The branch taken without a part and a part count (plan.rs:116-163).
NewWithoutParts(table, format, scale_factor, overflow_checks) ==
    LET rows == row_count(table, scale_factor, overflow_checks)
        computed == NumParts(rows.v, avg_row_size_bytes(table), overflow_checks)
        cap == FromI32(PARQUET_MAX_ROW_GROUPS)
        num_parts == IF format = "Parquet" /\ SignedLess(cap, computed.v)
                     THEN cap ELSE computed.v
    IN  IF ~rows.ok \/ ~computed.ok THEN Panic("arithmetic overflow")
        ELSE IF ~FitsSigned(num_parts, 4) THEN Panic("TryFromIntError")
        ELSE Plan(ToI32(num_parts), RangeInclusive(1, ToI32(num_parts)))

GenerationPlanNew(table, format, scale_factor, cli_part, cli_part_count, num_threads, overflow_checks) ==
    IF cli_part # -1 \/ cli_part_count # -1
    THEN NewWithParts(table, cli_part, cli_part_count, num_threads, overflow_checks)
    ELSE NewWithoutParts(table, format, scale_factor, overflow_checks)

(***************************************************************************)
(* impl IntoIterator for GenerationPlan (plan.rs): one (part_number,       *)
(* part_count) pair per part_list entry, in part_list order.               *)
(***************************************************************************)
\* IntoIter yielding the pairs last to first.
IntoIterReversed(p) ==
    [i \in 1..Len(p.part_list) |-> <<p.part_list[Len(p.part_list) + 1 - i], p.part_count>>]

\* IntoIter pairing each part with the length of part_list instead of part_count.
IntoIterListLen(p) ==
    [i \in 1..Len(p.part_list) |-> <<p.part_list[i], Len(p.part_list)>>]

IntoIter(p) ==
    [i \in 1..Len(p.part_list) |-> <<p.part_list[i], p.part_count>>]

(***************************************************************************)
(* WriterSink (main.rs).  inner is the stream written so far, one entry    *)
(* per buffer written; chunks and bytes are its WriteStatistics.           *)
(***************************************************************************)
WriterSinkNew == [inner |-> <<>>, chunks |-> 0, bytes |-> 0, flushed |-> FALSE]

\* WriterSinkSink counting the buffer only after write_all returned Ok.
WriterSinkSinkCountWritten(sink, buffer, written) ==
    [sink EXCEPT !.chunks = IF written THEN @ + 1 ELSE @,
                 !.bytes = IF written THEN @ + Len(buffer) ELSE @,
                 !.inner = IF written THEN Append(@, buffer) ELSE @]

\* Sink::sink: count the buffer, then write_all it; written says whether write_all
\* returned Ok (a failed write adds nothing the model keeps).
WriterSinkSink(sink, buffer, written) ==
    [sink EXCEPT !.chunks = @ + 1,
                 !.bytes = @ + Len(buffer),
                 !.inner = IF written THEN Append(@, buffer) ELSE @]

\* Sink::flush
WriterSinkFlush(sink) == [sink EXCEPT !.flushed = TRUE]

(***************************************************************************)
(* The sources of define_generate! (main.rs): the plan's pairs mapped,     *)
(* lazily and in order, to generators and their sources.  A source is      *)
(* tagged with its ordinal, its position in that sequence; the buffer it   *)
(* produces is the generator's output for (part, num_parts), which the     *)
(* model names by that pair.                                               *)
(***************************************************************************)
Sources(p) ==
    [i \in 1..Len(IntoIter(p)) |->
        [ordinal |-> i, part |-> IntoIter(p)[i][1], num_parts |-> IntoIter(p)[i][2]]]

Output(source) == <<source.part, source.num_parts>>

(***************************************************************************)
(* State.                                                                  *)
(*   args          the command line of one run and the build profile       *)
(*   plan          what GenerationPlan::new returned, NoPlan before        *)
(*   runs          the plans of the invocations --part 1, 2, ... so far    *)
(*   pc            where the table driver is                               *)
(*   sources       the sources not yet handed to a worker                  *)
(*   running       the sources workers are busy with                       *)
(*   buffer        completed outputs waiting for their turn                *)
(*   next_to_emit  the ordinal the sink expects next                       *)
(*   sink          the table's WriterSink                                  *)
(*   error         the first error of the run, "none" without one          *)
(*   cli           the options of struct Cli that Cli::main itself reads   *)
(*   mainpc        where Cli::main is                                      *)
(*   todo          the tables the loop of Cli::main has not reached yet    *)
(*   dir           whether the output directory has been created           *)
(*   files         the file names File::create was called on, in order     *)
(*   out           the tables whose sink was opened on standard output     *)
(*   warnings      the warnings printed to standard error                  *)
(*   log           the tables of the "Writing table" lines, in order       *)
(*   in_sink       the calls of the sink that have begun and not returned  *)
(*   calls         the buffers passed to Sink::sink so far, call by call   *)
(***************************************************************************)
VARIABLES args, plan, runs, pc, sources, running, buffer, next_to_emit, sink, error,
          cli, mainpc, todo, dir, files, out, warnings, log, in_sink, calls

vars == <<args, plan, runs, pc, sources, running, buffer, next_to_emit, sink, error,
          cli, mainpc, todo, dir, files, out, warnings, log, in_sink, calls>>

poolVars == <<pc, sources, running, buffer, next_to_emit, sink, error>>

mainVars == <<cli, mainpc, todo, dir, files, out, warnings, log>>

sinkVars == <<in_sink, calls>>

NoPlan == [kind |-> "none"]

NoSink == [inner |-> <<>>, chunks |-> 0, bytes |-> 0, flushed |-> FALSE]

PoolIdle ==
    /\ pc = "start"
    /\ sources = <<>>
    /\ running = {}
    /\ buffer = {}
    /\ next_to_emit = 1
    /\ sink = NoSink
    /\ error = "none"
    /\ in_sink = <<>>
    /\ calls = <<>>

(***************************************************************************)
(* struct Cli (main.rs): the options Cli::main reads.  An option is a      *)
(* record of whether the command line gives it and the value given; the    *)
(* field clap fills in is the value given or the default.                  *)
(***************************************************************************)
Compression == {"SNAPPY", "ZSTD(1)"}

\* plan::DEFAULT_PARQUET_ROW_GROUP_BYTES, imported at main.rs:53.
DEFAULT_PARQUET_ROW_GROUP_BYTES == 15 * 1024 * 1024

NotGiven(default) == [given |-> FALSE, value |-> default]

Given(value) == [given |-> TRUE, value |-> value]

\* The vec! of Cli::main, used when --tables is absent.
AllTables ==
    <<"nation", "region", "part", "supplier", "partsupp", "customer", "orders", "lineitem">>

\* let tables = if let Some(tables) = self.tables.as_ref() { tables.clone() } else { vec![..] }
TablesToGenerate(c) == IF c.tables.given THEN c.tables.value ELSE AllTables

\* self.parquet_compression and self.parquet_row_group_bytes as clap fills them in.
ParquetCompression(c) == c.parquet_compression.value

ParquetRowGroupBytes(c) == c.parquet_row_group_bytes.value

\* The eprintln! lines of Cli::main for parquet options without parquet output.
Warnings(format, c) ==
    IF format = "Parquet" THEN <<>>
    ELSE (IF ParquetCompression(c) # "SNAPPY" THEN <<"compression">> ELSE <<>>)
         \o (IF ParquetRowGroupBytes(c) # DEFAULT_PARQUET_ROW_GROUP_BYTES
             THEN <<"row group size">> ELSE <<>>)

\* Cli::output_filename: the table's name and the format's extension.
output_filename(table, format) ==
    <<table, CASE format = "Tbl" -> "tbl" [] format = "Csv" -> "csv" [] format = "Parquet" -> "parquet">>

\* The command line without any of these options.
DefaultCli ==
    [tables |-> NotGiven(<<>>), stdout |-> FALSE,
     parquet_compression |-> NotGiven("SNAPPY"),
     parquet_row_group_bytes |-> NotGiven(DEFAULT_PARQUET_ROW_GROUP_BYTES)]

\* Cli::main has set up the run and is inside one generate_* call.
MainIdle ==
    /\ cli = DefaultCli
    /\ mainpc = "table"
    /\ todo = <<>>
    /\ dir = TRUE
    /\ files = <<>>
    /\ out = <<>>
    /\ warnings = <<>>
    /\ log = <<>>

\* Bounds of the inputs.
MaxScaleExp == 3
MaxMantissa == 2
MaxParts == 4
MaxThreads == 4

RECURSIVE Pow10(_)
Pow10(e) == IF e = 0 THEN 1 ELSE 10 * Pow10(e - 1)

\* Scale factors m * 10^e, e in -3..MaxScaleExp, as fractions over 1000.
ScaleFactors ==
    {[num |-> m * Pow10(e + 3), den |-> 1000] : m \in 1..MaxMantissa, e \in (-3)..MaxScaleExp}

\* --part / --parts as GenerationPlan::new takes them: -1 when the flag is absent.
PartChoices == {-1, 0} \cup (1..MaxParts) \cup {32768, 1073741824}

\* --num-threads, a 64-bit usize: small counts, 2^32 and 2^32 + 2.
ThreadChoices ==
    {NatDigits(t) : t \in 1..MaxThreads} \cup {<<0, 0, 0, 0, 1>>, <<2, 0, 0, 0, 1>>}

ArgChoices ==
    [table : Table, format : OutputFormat, scale_factor : ScaleFactors,
     cli_part : PartChoices, cli_part_count : PartChoices,
     num_threads : ThreadChoices, overflow_checks : BOOLEAN]

(***************************************************************************)
(* SpecPlan: one call of GenerationPlan::new on any of the arguments.      *)
(***************************************************************************)
InitPlan ==
    /\ args \in ArgChoices
    /\ plan = NoPlan
    /\ runs = <<>>
    /\ PoolIdle
    /\ MainIdle

\* let plan = GenerationPlan::new(...)
NewPlan ==
    /\ plan = NoPlan
    /\ plan' = GenerationPlanNew(args.table, args.format, args.scale_factor, args.cli_part,
                                 args.cli_part_count, args.num_threads, args.overflow_checks)
    /\ UNCHANGED <<sinkVars, mainVars, args, runs, poolVars>>

NextPlan == NewPlan

SpecPlan == InitPlan /\ [][NextPlan]_vars

(***************************************************************************)
(* SpecParts: the invocations --parts M --part 1, ..., --part M of one     *)
(* table, one after the other, as test_tpchgen_cli_parts makes them.       *)
(***************************************************************************)
PartsArgChoices ==
    [table : Table, format : OutputFormat, scale_factor : ScaleFactors,
     cli_part : {1}, cli_part_count : 1..MaxParts,
     num_threads : ThreadChoices, overflow_checks : BOOLEAN]

InitParts ==
    /\ args \in PartsArgChoices
    /\ plan = NoPlan
    /\ runs = <<>>
    /\ PoolIdle
    /\ MainIdle

\* The next invocation: --part Len(runs) + 1 of --parts M.
InvokePart ==
    /\ Len(runs) < args.cli_part_count
    /\ runs' = Append(runs,
                      GenerationPlanNew(args.table, args.format, args.scale_factor,
                                        Len(runs) + 1, args.cli_part_count,
                                        args.num_threads, args.overflow_checks))
    /\ UNCHANGED <<sinkVars, mainVars, args, plan, poolVars>>

NextParts == InvokePart

SpecParts == InitParts /\ [][NextParts]_vars

(***************************************************************************)
(* Spec: the generation of one table (define_generate!, Cli::go) through   *)
(* the ordered worker pool.  The pool is generate_in_chunks, called at     *)
(* main.rs:465 and :468; it keeps next_to_emit and a reorder buffer of at  *)
(* most 2 * num_threads completed outputs.                                 *)
(***************************************************************************)
MaxWorkers == 3
MaxRunParts == 2

RunScaleFactors == {[num |-> 1, den |-> 1000], [num |-> 1000, den |-> 1000]}

RunArgChoices ==
    [table : Table, format : OutputFormat, scale_factor : RunScaleFactors,
     cli_part : {-1, 0} \cup (1..MaxRunParts), cli_part_count : {-1, MaxRunParts},
     num_threads : {NatDigits(t) : t \in 1..MaxWorkers}, overflow_checks : BOOLEAN]

Init ==
    /\ args \in RunArgChoices
    /\ plan = NoPlan
    /\ runs = <<>>
    /\ PoolIdle
    /\ MainIdle

NumThreads == DigitsToInt(args.num_threads)

BufferCap == 2 * NumThreads

\* define_generate!: the plan is built first and the "Writing table" line logged; a
\* panic of GenerationPlan::new ends the process.
BuildPlan ==
    /\ pc = "start"
    /\ plan' = GenerationPlanNew(args.table, args.format, args.scale_factor, args.cli_part,
                                 args.cli_part_count, args.num_threads, args.overflow_checks)
    /\ pc' = IF plan'.kind = "plan" THEN "planned" ELSE "panicked"
    /\ error' = IF plan'.kind = "plan" THEN "none" ELSE "panic"
    /\ log' = IF plan'.kind = "plan" THEN Append(log, args.table) ELSE log
    /\ UNCHANGED <<cli, mainpc, todo, dir, files, out, warnings>>
    /\ UNCHANGED <<sinkVars, args, runs, sources, running, buffer, next_to_emit, sink>>

\* Cli::go: the output file is created (or standard output taken, with --stdout),
\* wrapped in a WriterSink and handed to the pool with the lazy sources.
GoCreate ==
    /\ pc = "planned"
    /\ sink' = WriterSinkNew
    /\ sources' = Sources(plan)
    /\ pc' = "running"
    /\ IF cli.stdout
       THEN out' = Append(out, args.table) /\ files' = files
       ELSE files' = Append(files, output_filename(args.table, args.format)) /\ out' = out
    /\ UNCHANGED <<cli, mainpc, todo, dir, warnings, log>>
    /\ UNCHANGED <<sinkVars, args, plan, runs, running, buffer, next_to_emit, error>>

\* Cli::go: File::create fails and `?` returns the error; the pool never runs.
GoCreateFails ==
    /\ pc = "planned"
    /\ ~cli.stdout
    /\ pc' = "failed"
    /\ error' = "io"
    /\ UNCHANGED <<sinkVars, mainVars, args, plan, runs, sources, running, buffer, next_to_emit, sink>>

\* StartProducer that goes on taking sources after a cancellation.
StartProducerWhenCancelled ==
    /\ pc = "running"
    /\ sources # <<>>
    /\ Cardinality(running) < NumThreads
    /\ Cardinality(buffer) < BufferCap
    /\ running' = running \cup {Head(sources)}
    /\ sources' = Tail(sources)
    /\ UNCHANGED <<sinkVars, mainVars, args, plan, runs, pc, buffer, next_to_emit, sink, error>>

\* StartProducer that takes a source although every worker is busy.
StartProducerUnbounded ==
    /\ pc = "running"
    /\ error = "none"
    /\ sources # <<>>
    /\ Cardinality(buffer) < BufferCap
    /\ running' = running \cup {Head(sources)}
    /\ sources' = Tail(sources)
    /\ UNCHANGED <<sinkVars, mainVars, args, plan, runs, pc, buffer, next_to_emit, sink, error>>

\* An idle worker takes the next source, unless the run is cancelled or the
\* reorder buffer is full.
StartProducer ==
    /\ pc = "running"
    /\ error = "none"
    /\ sources # <<>>
    /\ Cardinality(running) < NumThreads
    /\ Cardinality(buffer) < BufferCap
    /\ running' = running \cup {Head(sources)}
    /\ sources' = Tail(sources)
    /\ UNCHANGED <<sinkVars, mainVars, args, plan, runs, pc, buffer, next_to_emit, sink, error>>

\* The buffered outputs of ordinals from, from + 1, ... as far as they are contiguous.
RECURSIVE Contiguous(_, _)
Contiguous(buf, from) ==
    IF \E b \in buf : b.ordinal = from
    THEN <<CHOOSE b \in buf : b.ordinal = from>> \o Contiguous(buf, from + 1)
    ELSE <<>>

\* sink accepts the first n of outs, in order.
RECURSIVE AcceptAll(_, _, _)
AcceptAll(snk, outs, n) ==
    IF n = 0 THEN snk
    ELSE WriterSinkSink(AcceptAll(snk, outs, n - 1), outs[n].output, TRUE)

\* CompleteEmit that emits the output and leaves the buffered ordinals where they are.
CompleteEmitNoDrain(src) ==
    /\ pc = "running"
    /\ error = "none"
    /\ src \in running
    /\ src.ordinal = next_to_emit
    /\ sink' = WriterSinkSink(sink, Output(src), TRUE)
    /\ calls' = Append(calls, Output(src))
    /\ next_to_emit' = next_to_emit + 1
    /\ running' = running \ {src}
    /\ UNCHANGED <<in_sink, mainVars, args, plan, runs, pc, sources, buffer, error>>

\* A worker finishes the source the sink is waiting for: its output is emitted, then
\* the contiguous higher ordinals are drained from the buffer.
CompleteEmit(src) ==
    /\ pc = "running"
    /\ error = "none"
    /\ src \in running
    /\ src.ordinal = next_to_emit
    /\ LET outs == <<[ordinal |-> src.ordinal, output |-> Output(src)]>>
                   \o Contiguous(buffer, next_to_emit + 1)
       IN  /\ sink' = AcceptAll(sink, outs, Len(outs))
           /\ calls' = calls \o [i \in 1..Len(outs) |-> outs[i].output]
           /\ next_to_emit' = next_to_emit + Len(outs)
           /\ buffer' = {b \in buffer : b.ordinal >= next_to_emit + Len(outs)}
    /\ running' = running \ {src}
    /\ UNCHANGED <<in_sink, mainVars, args, plan, runs, pc, sources, error>>

\* The same, but the sink fails on the n-th buffer handed to it: the run is
\* cancelled with the sink's error.
CompleteEmitFails(src, n) ==
    /\ pc = "running"
    /\ error = "none"
    /\ src \in running
    /\ src.ordinal = next_to_emit
    /\ LET outs == <<[ordinal |-> src.ordinal, output |-> Output(src)]>>
                   \o Contiguous(buffer, next_to_emit + 1)
       IN  /\ n \in 1..Len(outs)
           /\ sink' = WriterSinkSink(AcceptAll(sink, outs, n - 1), outs[n].output, FALSE)
           /\ calls' = calls \o [i \in 1..n |-> outs[i].output]
           /\ next_to_emit' = next_to_emit + (n - 1)
           /\ buffer' = {b \in buffer : b.ordinal >= next_to_emit + n}
    /\ running' = running \ {src}
    /\ error' = "io"
    /\ UNCHANGED <<in_sink, mainVars, args, plan, runs, pc, sources>>

\* CompletePark that parks the output whether the buffer has room or not.
CompleteParkUnbounded(src) ==
    /\ pc = "running"
    /\ error = "none"
    /\ src \in running
    /\ src.ordinal # next_to_emit
    /\ buffer' = buffer \cup {[ordinal |-> src.ordinal, output |-> Output(src)]}
    /\ running' = running \ {src}
    /\ UNCHANGED <<sinkVars, mainVars, args, plan, runs, pc, sources, next_to_emit, sink, error>>

\* A worker finishes a source whose turn has not come: the output is parked, once
\* the buffer has room.
CompletePark(src) ==
    /\ pc = "running"
    /\ error = "none"
    /\ src \in running
    /\ src.ordinal # next_to_emit
    /\ Cardinality(buffer) < BufferCap
    /\ buffer' = buffer \cup {[ordinal |-> src.ordinal, output |-> Output(src)]}
    /\ running' = running \ {src}
    /\ UNCHANGED <<sinkVars, mainVars, args, plan, runs, pc, sources, next_to_emit, sink, error>>

\* A producer fails: the run is cancelled with its error.
ProducerFails(src) ==
    /\ pc = "running"
    /\ error = "none"
    /\ src \in running
    /\ running' = running \ {src}
    /\ error' = "generator"
    /\ UNCHANGED <<sinkVars, mainVars, args, plan, runs, pc, sources, buffer, next_to_emit, sink>>

\* After a cancellation the workers in flight run to their end; their outputs are
\* dropped.
CompleteCancelled(src) ==
    /\ pc = "running"
    /\ error # "none"
    /\ src \in running
    /\ running' = running \ {src}
    /\ UNCHANGED <<sinkVars, mainVars, args, plan, runs, pc, sources, buffer, next_to_emit, sink, error>>

\* Finalize that does not wait for the workers in flight.
FinalizeEarly ==
    /\ pc = "running"
    /\ error = "none"
    /\ sources = <<>>
    /\ sink' = WriterSinkFlush(sink)
    /\ pc' = "done"
    /\ UNCHANGED <<sinkVars, mainVars, args, plan, runs, sources, running, buffer, next_to_emit, error>>

\* Every source was emitted: the sink is finalized (Sink::flush) and the table is done.
Finalize ==
    /\ pc = "running"
    /\ error = "none"
    /\ sources = <<>> /\ running = {} /\ buffer = {}
    /\ sink' = WriterSinkFlush(sink)
    /\ pc' = "done"
    /\ UNCHANGED <<sinkVars, mainVars, args, plan, runs, sources, running, buffer, next_to_emit, error>>

\* The flush fails: the table ends with the error.
FinalizeFails ==
    /\ pc = "running"
    /\ error = "none"
    /\ sources = <<>> /\ running = {} /\ buffer = {}
    /\ pc' = "failed"
    /\ error' = "io"
    /\ UNCHANGED <<sinkVars, mainVars, args, plan, runs, sources, running, buffer, next_to_emit, sink>>

\* A cancelled pool with no worker left in flight returns the first error.
ReturnError ==
    /\ pc = "running"
    /\ error # "none"
    /\ running = {}
    /\ pc' = "failed"
    /\ UNCHANGED <<sinkVars, mainVars, args, plan, runs, sources, running, buffer, next_to_emit, sink, error>>

Next ==
    \/ BuildPlan
    \/ GoCreate
    \/ GoCreateFails
    \/ StartProducer
    \/ \E src \in running : CompleteEmit(src)
    \/ \E src \in running : \E n \in 1..(BufferCap + 1) : CompleteEmitFails(src, n)
    \/ \E src \in running : CompletePark(src)
    \/ \E src \in running : ProducerFails(src)
    \/ \E src \in running : CompleteCancelled(src)
    \/ Finalize
    \/ FinalizeFails
    \/ ReturnError

Spec == Init /\ [][Next]_vars

(***************************************************************************)
(* SpecSink: the same table generation with every call of the sink as an   *)
(* interval: a call begins (it is pushed on in_sink) and later returns,    *)
(* and the workers go on completing and starting sources in between.       *)
(* next_to_emit advances when Sink::sink returns.                          *)
(***************************************************************************)
SinkCall(buf) == [call |-> "sink", output |-> buf]

FlushCall == [call |-> "flush", output |-> <<>>]

\* A worker finishes the source the sink is waiting for and Sink::sink is called
\* with its output.
EmitBegin(src) ==
    /\ pc = "running"
    /\ error = "none"
    /\ src \in running
    /\ src.ordinal = next_to_emit
    /\ in_sink' = Append(in_sink, SinkCall(Output(src)))
    /\ running' = running \ {src}
    /\ UNCHANGED <<calls, mainVars, args, plan, runs, pc, sources, buffer, next_to_emit, sink, error>>

\* DrainBegin that takes the next buffered output while calls are still in progress.
DrainBeginEager ==
    /\ pc = "running"
    /\ error = "none"
    /\ \E b \in buffer :
          /\ b.ordinal = next_to_emit + Len(in_sink)
          /\ in_sink' = Append(in_sink, SinkCall(b.output))
          /\ buffer' = buffer \ {b}
    /\ UNCHANGED <<calls, mainVars, args, plan, runs, pc, sources, running, next_to_emit, sink, error>>

\* The drain: the buffer holds the output the sink is waiting for and Sink::sink is
\* called with it.
DrainBegin ==
    /\ pc = "running"
    /\ error = "none"
    /\ \E b \in buffer :
          /\ b.ordinal = next_to_emit
          /\ in_sink' = Append(in_sink, SinkCall(b.output))
          /\ buffer' = buffer \ {b}
    /\ UNCHANGED <<calls, mainVars, args, plan, runs, pc, sources, running, next_to_emit, sink, error>>

\* Sink::sink returns Ok: the buffer is written and the next ordinal is awaited.
SinkReturn ==
    /\ pc = "running"
    /\ in_sink # <<>>
    /\ Head(in_sink).call = "sink"
    /\ sink' = WriterSinkSink(sink, Head(in_sink).output, TRUE)
    /\ calls' = Append(calls, Head(in_sink).output)
    /\ next_to_emit' = next_to_emit + 1
    /\ in_sink' = Tail(in_sink)
    /\ UNCHANGED <<mainVars, args, plan, runs, pc, sources, running, buffer, error>>

\* Every source was emitted and its call has returned: Sink::flush, which takes the
\* sink by value, is called.
FlushBegin ==
    /\ pc = "running"
    /\ error = "none"
    /\ sources = <<>> /\ running = {} /\ buffer = {}
    /\ in_sink = <<>>
    /\ ~sink.flushed
    /\ in_sink' = <<FlushCall>>
    /\ UNCHANGED <<calls, mainVars, args, plan, runs, pc, sources, running, buffer, next_to_emit, sink, error>>

\* Sink::flush returns Ok and the table is done.
FlushReturn ==
    /\ pc = "running"
    /\ in_sink # <<>>
    /\ Head(in_sink).call = "flush"
    /\ sink' = WriterSinkFlush(sink)
    /\ in_sink' = Tail(in_sink)
    /\ pc' = "done"
    /\ UNCHANGED <<calls, mainVars, args, plan, runs, sources, running, buffer, next_to_emit, error>>

NextSink ==
    \/ BuildPlan
    \/ GoCreate
    \/ StartProducer
    \/ \E src \in running : CompletePark(src)
    \/ \E src \in running : EmitBegin(src)
    \/ DrainBegin
    \/ SinkReturn
    \/ FlushBegin
    \/ FlushReturn

SpecSink == Init /\ [][NextSink]_vars

(***************************************************************************)
(* SpecWriterSink: a WriterSink on its own: any sequence of Sink::sink     *)
(* calls with buffers of any length, whose write_all succeeds or fails,    *)
(* and Sink::flush, which consumes the sink.                               *)
(***************************************************************************)
MaxBufferLen == 3
MaxCalls == 3

\* Byte buffers of every length up to MaxBufferLen.
Buffers == {[i \in 1..n |-> 0] : n \in 0..MaxBufferLen}

InitWriterSink ==
    /\ args \in {a \in RunArgChoices :
                      /\ a.table = "nation" /\ a.format \in {"Tbl", "Csv"}
                      /\ a.cli_part = -1 /\ a.cli_part_count = -1
                      /\ a.num_threads = NatDigits(1) /\ a.overflow_checks}
    /\ plan = NoPlan
    /\ runs = <<>>
    /\ PoolIdle
    /\ MainIdle

\* sink.sink(buf)
SinkBuffer(buf, written) ==
    /\ ~sink.flushed
    /\ Len(calls) < MaxCalls
    /\ sink' = WriterSinkSink(sink, buf, written)
    /\ calls' = Append(calls, buf)
    /\ UNCHANGED <<in_sink, mainVars, args, plan, runs, pc, sources, running, buffer, next_to_emit, error>>

\* sink.flush()
FlushSink ==
    /\ ~sink.flushed
    /\ sink' = WriterSinkFlush(sink)
    /\ UNCHANGED <<sinkVars, mainVars, args, plan, runs, pc, sources, running, buffer, next_to_emit, error>>

NextWriterSink ==
    \/ \E buf \in Buffers : \E written \in BOOLEAN : SinkBuffer(buf, written)
    \/ FlushSink

SpecWriterSink == InitWriterSink /\ [][NextWriterSink]_vars

(***************************************************************************)
(* SpecLive: the same table generation when no producer, no sink call and  *)
(* no File::create fails, under weak fairness of the pool's steps: a       *)
(* thread that can take a step is scheduled, so the pool does not stand    *)
(* still while one of its steps is possible.                               *)
(***************************************************************************)
NextLive ==
    \/ BuildPlan
    \/ GoCreate
    \/ StartProducer
    \/ \E src \in running : CompleteEmit(src)
    \/ \E src \in running : CompletePark(src)
    \/ Finalize

\* The steps of the pool's threads: the workers and the ordered emission.
PoolStep ==
    \/ GoCreate
    \/ StartProducer
    \/ \E src \in running : CompleteEmit(src)
    \/ \E src \in running : CompletePark(src)
    \/ Finalize

SpecLive == Init /\ [][NextLive]_vars /\ WF_vars(PoolStep)

(***************************************************************************)
(* SpecMain: Cli::main (main.rs:304-374).  The set-up, then the loop over  *)
(* the tables, each generated by its generate_* function through the pool  *)
(* above; `?` ends the run at the first error.                             *)
(***************************************************************************)
MaxMainThreads == 2

\* --tables: absent, or lists in and out of the conventional order.
TableLists ==
    {NotGiven(<<>>), Given(<<"part">>), Given(<<"lineitem", "nation">>),
     Given(<<"region", "supplier", "customer">>), Given(<<"orders", "orders">>)}

MainCliChoices ==
    [tables : TableLists, stdout : BOOLEAN,
     parquet_compression : {NotGiven("SNAPPY"), Given("SNAPPY"), Given("ZSTD(1)")},
     parquet_row_group_bytes : {NotGiven(DEFAULT_PARQUET_ROW_GROUP_BYTES), Given(8192)}]

\* args.table is the table of the generate_* call in progress; the loop sets it.
MainArgChoices ==
    [table : {"nation"}, format : OutputFormat, scale_factor : {[num |-> 1, den |-> 1000]},
     cli_part : {-1, 0, 1, 2}, cli_part_count : {-1, 0, 1},
     num_threads : {NatDigits(t) : t \in 1..MaxMainThreads}, overflow_checks : {TRUE}]

InitMain ==
    /\ args \in MainArgChoices
    /\ cli \in MainCliChoices
    /\ plan = NoPlan
    /\ runs = <<>>
    /\ pc = "idle"
    /\ sources = <<>>
    /\ running = {}
    /\ buffer = {}
    /\ next_to_emit = 1
    /\ sink = NoSink
    /\ error = "none"
    /\ in_sink = <<>>
    /\ calls = <<>>
    /\ mainpc = "start"
    /\ todo = <<>>
    /\ dir = FALSE
    /\ files = <<>>
    /\ out = <<>>
    /\ warnings = <<>>
    /\ log = <<>>

\* Cli::main up to the loop: the output directory is created unless --stdout, the
\* tables are determined and the warnings printed.
MainSetup ==
    /\ mainpc = "start"
    /\ dir' = (dir \/ ~cli.stdout)
    /\ todo' = TablesToGenerate(cli)
    /\ warnings' = Warnings(args.format, cli)
    /\ mainpc' = "loop"
    /\ UNCHANGED <<sinkVars, args, plan, runs, poolVars, cli, files, out, log>>

\* fs::create_dir_all fails and `?` returns its error.
MainSetupFails ==
    /\ mainpc = "start"
    /\ ~cli.stdout
    /\ mainpc' = "err"
    /\ error' = "io"
    /\ UNCHANGED <<args, plan, runs, pc, sources, running, buffer, next_to_emit, sink>>
    /\ UNCHANGED <<sinkVars, cli, todo, dir, files, out, warnings, log>>

\* for table in tables: the generate_* function of the next table is entered.
GenerateTable ==
    /\ mainpc = "loop"
    /\ todo # <<>>
    /\ args' = [args EXCEPT !.table = Head(todo)]
    /\ todo' = Tail(todo)
    /\ mainpc' = "table"
    /\ pc' = "start"
    /\ sources' = <<>>
    /\ running' = {}
    /\ buffer' = {}
    /\ next_to_emit' = 1
    /\ UNCHANGED <<sinkVars, plan, runs, sink, error, cli, dir, files, out, warnings, log>>

\* The `?` after generate_*().await: where Cli::main goes with the table's result.
PropagateIgnoringErrors(result) ==
    CASE result = "done" -> "loop"
      [] result = "failed" -> "loop"
      [] result = "panicked" -> "loop"

Propagate(result) ==
    CASE result = "done" -> "loop"
      [] result = "failed" -> "err"
      [] result = "panicked" -> "panic"

\* generate_* returns (or the process panics) and the loop goes on or ends.
TableReturns ==
    /\ mainpc = "table"
    /\ pc \in {"done", "failed", "panicked"}
    /\ mainpc' = Propagate(pc)
    /\ UNCHANGED <<sinkVars, args, plan, runs, poolVars, cli, todo, dir, files, out, warnings, log>>

\* The loop is over: "Generation complete!" and Ok(()).
MainDone ==
    /\ mainpc = "loop"
    /\ todo = <<>>
    /\ mainpc' = "ok"
    /\ UNCHANGED <<sinkVars, args, plan, runs, poolVars, cli, todo, dir, files, out, warnings, log>>

NextMain ==
    \/ MainSetup
    \/ MainSetupFails
    \/ GenerateTable
    \/ TableReturns
    \/ MainDone
    \/ BuildPlan
    \/ GoCreate
    \/ GoCreateFails
    \/ StartProducer
    \/ \E src \in running : CompleteEmit(src)
    \/ \E src \in running : \E n \in 1..(BufferCap + 1) : CompleteEmitFails(src, n)
    \/ \E src \in running : CompletePark(src)
    \/ \E src \in running : ProducerFails(src)
    \/ \E src \in running : CompleteCancelled(src)
    \/ Finalize
    \/ FinalizeFails
    \/ ReturnError

SpecMain == InitMain /\ [][NextMain]_vars

(***************************************************************************)
(* SpecRowGroups: GenerationPlan::new without partition flags, on command  *)
(* lines that give or leave out --parquet-row-group-bytes.                 *)
(***************************************************************************)
RowGroupArgChoices ==
    [table : Table, format : OutputFormat, scale_factor : ScaleFactors,
     cli_part : {-1}, cli_part_count : {-1},
     num_threads : {NatDigits(1)}, overflow_checks : BOOLEAN]

RowGroupBytesChoices ==
    {NotGiven(DEFAULT_PARQUET_ROW_GROUP_BYTES), Given(8192), Given(20000000)}

InitRowGroups ==
    /\ args \in RowGroupArgChoices
    /\ plan = NoPlan
    /\ runs = <<>>
    /\ PoolIdle
    /\ cli \in {[DefaultCli EXCEPT !.parquet_row_group_bytes = b] : b \in RowGroupBytesChoices}
    /\ mainpc = "table"
    /\ todo = <<>>
    /\ dir = TRUE
    /\ files = <<>>
    /\ out = <<>>
    /\ warnings = <<>>
    /\ log = <<>>

NextRowGroups == NewPlan

SpecRowGroups == InitRowGroups /\ [][NextRowGroups]_vars

(***************************************************************************)
(* Vocabulary of the plan claims.                                          *)
(***************************************************************************)
PlanReturned == plan.kind = "plan"

FlagsAbsent == args.cli_part = -1 /\ args.cli_part_count = -1

FlagsAccepted == 1 <= args.cli_part /\ args.cli_part <= args.cli_part_count

Atomic == args.table \in {"nation", "region"}

StrictlyAscending(l) == \A i \in 1..(Len(l) - 1) : l[i] < l[i + 1]

\* The rows the plan counts for the table of args, as a natural number.
PlannedRows ==
    CASE Atomic -> NatDigits(1)
      [] args.table = "lineitem" ->
            DigitsMul(NatDigits(4), calculate_row_count("orders", args.scale_factor).mag)
      [] OTHER -> calculate_row_count(args.table, args.scale_factor).mag

PlannedBytes == DigitsMul(PlannedRows, NatDigits(avg_row_size_bytes(args.table)))

ChunkBytes == NatDigits(15 * 1024 * 1024)

\* C1: the buffers the sink has accepted are the producers' outputs in part_list
\* order, each once and none before its predecessors; a finished table has all.
C1_OrderedDelivery ==
    (plan.kind = "plan" /\ pc \in {"running", "done", "failed"}) =>
        /\ Len(sink.inner) <= Len(plan.part_list)
        /\ sink.inner = [i \in 1..Len(sink.inner) |-> <<plan.part_list[i], plan.part_count>>]
        /\ error = "none" => next_to_emit = Len(sink.inner) + 1
        /\ pc = "done" => Len(sink.inner) = Len(plan.part_list)

\* C1 witness: the eleven chunks of orders at scale factor 1, produced by three
\* workers, all accepted and the sink finalized.
C1_Witness ==
    /\ pc = "done"
    /\ NumThreads = 3
    /\ Len(plan.part_list) = 11
    /\ Len(sink.inner) = 11
    /\ sink.flushed

\* C2 (as claimed): every plan returned has a non-empty, strictly ascending
\* part_list whose elements all lie in 1..=part_count.
C2_PlanWellFormed ==
    PlanReturned =>
        /\ plan.part_list # <<>>
        /\ StrictlyAscending(plan.part_list)
        /\ \A i \in 1..Len(plan.part_list) :
              1 <= plan.part_list[i] /\ plan.part_list[i] <= plan.part_count

\* C3 (as claimed): for a non-atomic table with part = k, parts = M, 1 <= k <= M, and
\* num_threads = T the plan has part_count = M*T and part_list = [(k-1)*T+1 .. k*T],
\* exactly T consecutive indices.
C3_CliExpansion ==
    (PlanReturned /\ ~Atomic /\ FlagsAccepted) =>
        /\ plan.part_count >= 0
        /\ NatDigits(plan.part_count) = DigitsMul(NatDigits(args.cli_part_count), args.num_threads)
        /\ NatDigits(Len(plan.part_list)) = args.num_threads
        /\ \A i \in 1..Len(plan.part_list) :
              /\ plan.part_list[i] >= 1
              /\ NatDigits(plan.part_list[i]) =
                    DigitsAdd(DigitsMul(NatDigits(args.cli_part - 1), args.num_threads),
                              NatDigits(i))

\* The part_lists of runs 1..n, one after the other.
RECURSIVE ConcatLists(_)
ConcatLists(n) ==
    IF n = 0 THEN <<>> ELSE ConcatLists(n - 1) \o runs[n].part_list

\* C4 (as claimed): for fixed parts = M and num_threads = T the part_lists of the
\* invocations part = 1..M share one part_count and, concatenated in order of part,
\* are 1..=M*T with every index exactly once.
C4_PartsCover ==
    (/\ Len(runs) = args.cli_part_count
     /\ ~Atomic
     /\ \A k \in 1..Len(runs) : runs[k].kind = "plan") =>
        /\ \A j, k \in 1..Len(runs) : runs[j].part_count = runs[k].part_count
        /\ NatDigits(Len(ConcatLists(Len(runs)))) =
              DigitsMul(NatDigits(args.cli_part_count), args.num_threads)
        /\ ConcatLists(Len(runs)) = [i \in 1..Len(ConcatLists(Len(runs))) |-> i]

\* C5: for nation and region every plan produced is (1, [1]), whatever the format,
\* the scale factor, num_threads and the partition flags are.
C5_AtomicPlan ==
    (plan # NoPlan /\ Atomic) => plan = Plan(1, <<1>>)

\* C5 witness: a plan built for an atomic table although partition flags were given.
C5_Witness ==
    /\ Atomic
    /\ args.cli_part = 2 /\ args.cli_part_count = 4
    /\ args.num_threads = NatDigits(4)
    /\ PlanReturned

\* C6 (as claimed): with format Parquet the plan's part_count is at most 32767,
\* auto-partitioned or CLI-partitioned.
C6_ParquetCap ==
    (PlanReturned /\ args.format = "Parquet") => plan.part_count <= 32767

\* C7: without partition flags the plan has part_count >= 1 and part_list is
\* exactly 1..=part_count.
C7_PlanCoverage ==
    (PlanReturned /\ FlagsAbsent) =>
        /\ plan.part_count >= 1
        /\ plan.part_list = [i \in 1..plan.part_count |-> i]

\* C7 witness: an auto-partitioned plan of more than one chunk.
C7_Witness ==
    /\ FlagsAbsent
    /\ PlanReturned
    /\ args.table = "orders" /\ args.format = "Csv"
    /\ plan.part_count > 1

\* ceil(x / k) = floor((x + k - 1) / k)
CeilChunks == DigitsDivSmall(DigitsAdd(PlannedBytes, NatDigits(15 * 1024 * 1024 - 1)),
                             15 * 1024 * 1024)

FloorChunks == DigitsDivSmall(PlannedBytes, 15 * 1024 * 1024)

\* n, then min(n, 32767) for Parquet.
Capped(n) ==
    IF args.format = "Parquet" /\ DigitsLess(NatDigits(32767), n) THEN NatDigits(32767) ELSE n

IsScale(n) == args.scale_factor = [num |-> n * 1000, den |-> 1000]

C10_FlagCoherence ==
    (plan # NoPlan /\ (args.cli_part = -1) # (args.cli_part_count = -1)) =>
        plan.kind = "InvalidArgument"

(***************************************************************************)
(* Vocabulary of the command-line claims.                                  *)
(***************************************************************************)
BothFlags == args.cli_part # -1 /\ args.cli_part_count # -1

OneFlagOnly == (args.cli_part = -1) # (args.cli_part_count = -1)

InvalidFlags ==
    \/ OneFlagOnly
    \/ BothFlags /\ (args.cli_part < 1 \/ args.cli_part_count < 1
                      \/ args.cli_part > args.cli_part_count)

\* The place of a table in the order nation, region, ..., lineitem.
Rank(t) == CHOOSE i \in 1..Len(AllTables) : AllTables[i] = t

\* C11 (as claimed): with both flags given, part < 1 is rejected with the message on
\* --part being greater than zero (also when parts < 1 as well), part > parts with
\* the message on --part being at most --parts, and parts < 1 is rejected too.
C11_RuleMessages ==
    (plan # NoPlan /\ BothFlags) =>
        /\ args.cli_part < 1 =>
              /\ plan.kind # "plan"
              /\ plan.message = "Invalid --part. Expected a number greater than zero"
        /\ (args.cli_part >= 1 /\ args.cli_part_count >= 1
               /\ args.cli_part > args.cli_part_count) =>
              /\ plan.kind # "plan"
              /\ plan.message = "Invalid --part. Expected at most the value of --parts"
        /\ args.cli_part_count < 1 => plan.kind # "plan"

\* C12 (as claimed): with an invalid --part / --parts combination the run never
\* creates the output directory, creates no file and opens no output.
C12_NoIoWhenInvalid ==
    InvalidFlags => (~dir /\ files = <<>> /\ out = <<>>)

\* C13 (as claimed): whatever --tables lists, tables start in the order nation,
\* region, part, supplier, partsupp, customer, orders, lineitem, and a table starts
\* only when the sink of the table before it has been finalized.
C13_TableOrder ==
    /\ \A i, j \in 1..Len(log) : i < j => Rank(log[i]) <= Rank(log[j])
    /\ (pc = "start" /\ log # <<>>) => sink.flushed

\* C14: once a table has failed (plan, producer or sink) no later table is started:
\* no plan is built, no file created and no output opened after it, the loop takes
\* no further table, and the run ends with that error instead of Ok.
C14_FirstErrorEndsRun ==
    [][/\ pc \in {"failed", "panicked"} =>
            /\ pc' = pc /\ error' = error /\ error # "none"
            /\ plan' = plan /\ log' = log /\ files' = files /\ out' = out /\ todo' = todo
            /\ mainpc' \in {mainpc, "err", "panic"}
       /\ mainpc \in {"err", "panic"} => mainpc' = mainpc
       /\ mainpc' = "ok" => error' = "none"]_vars

\* C14 witness: the second of the eight tables failed in a producer; the run has
\* ended with that error and six tables were never started.
C14_Witness ==
    /\ mainpc = "err"
    /\ error = "generator"
    /\ ~cli.tables.given
    /\ log = <<"nation", "region">>
    /\ Len(files) = 2
    /\ Len(todo) = 6

\* C18 (as claimed): with --stdout and a number of selected tables other than one
\* (the default of all tables included) no table is written to standard output.
C18_StdoutOneTable ==
    (cli.stdout /\ Len(TablesToGenerate(cli)) # 1) => out = <<>>

\* C19 (as claimed): when the format is not parquet, one warning is printed for each
\* of --parquet-compression and --parquet-row-group-bytes the command line gives,
\* whatever the value given.
C19_WarningPerOption ==
    (mainpc \in {"loop", "table", "ok"} /\ args.format # "Parquet") =>
        Len(warnings) = (IF cli.parquet_compression.given THEN 1 ELSE 0)
                        + (IF cli.parquet_row_group_bytes.given THEN 1 ELSE 0)

\* C15: once a producer has failed or the sink has returned an error, no source that
\* was not started is started, the sink gets no further buffer, the error recorded
\* first stays the error of the run, and the pool returns it only when no worker is
\* in flight any more.
C15_Cancellation ==
    [][(pc = "running" /\ error # "none") =>
          /\ sources' = sources
          /\ running' \subseteq running
          /\ sink' = sink
          /\ error' = error
          /\ pc' # pc => (pc' = "failed" /\ running = {})]_vars

\* C15 witness: a producer failed while another worker was in flight and sources
\* were waiting; the pool has returned that error and the sources were never started.
C15_Witness ==
    /\ pc = "failed"
    /\ error = "generator"
    /\ running = {}
    /\ Len(sources) >= 2
    /\ Len(sink.inner) >= 1
    /\ Len(sink.inner) + Len(sources) + 2 <= Len(plan.part_list)

\* C16: at every moment the number of producers running is at most num_threads.
C16_WorkerBound ==
    Cardinality(running) <= NumThreads

\* C16 witness: all of two workers are busy while further sources wait.
C16_Witness ==
    /\ pc = "running"
    /\ NumThreads = 2
    /\ Cardinality(running) = 2
    /\ sources # <<>>

\* C17: the sink is flushed only after the buffer of the last chunk was accepted and
\* no worker is left, a table is done only with its sink flushed, and a flushed sink
\* is neither given a buffer nor flushed again.
C17_FinalizeOnce ==
    [][/\ (sink'.flushed /\ ~sink.flushed) =>
            /\ sources = <<>> /\ running = {} /\ buffer = {}
            /\ Len(sink.inner) = Len(plan.part_list)
            /\ sink'.inner = sink.inner
            /\ pc = "running" /\ pc' = "done"
       /\ sink.flushed => (sink' = sink /\ pc' = pc)
       /\ pc' = "done" => sink'.flushed]_vars

\* C17 witness: a table of two chunks generated by two workers, both chunks accepted
\* and the sink flushed.
C17_Witness ==
    /\ pc = "done"
    /\ sink.flushed
    /\ NumThreads = 2
    /\ sink.chunks = 2
    /\ Len(plan.part_list) = 2

\* C20 (as claimed): without partition flags the chunk count is
\* floor(rows * avg_row_bytes / target) + 1 (held to 32767 for Parquet) with target
\* the value of --parquet-row-group-bytes, so that at scale factor 1 in Parquet a
\* target of 20,000,000 bytes gives fewer row groups than the default target.
C20_TargetFromFlag ==
    (PlanReturned /\ FlagsAbsent) =>
        /\ plan.part_count >= 0
        /\ NatDigits(plan.part_count) =
              Capped(DigitsAdd(DigitsDivSmall(PlannedBytes, ParquetRowGroupBytes(cli)), <<1>>))
        /\ (/\ ParquetRowGroupBytes(cli) = 20000000
            /\ args.format = "Parquet" /\ IsScale(1)
            /\ args.table \in {"lineitem", "orders", "partsupp", "customer", "part"}) =>
              DigitsLess(NatDigits(plan.part_count), DigitsAdd(FloorChunks, <<1>>))

\* C21: the reorder buffer never holds more than 2 * num_threads outputs.
C21_BufferBound ==
    Cardinality(buffer) <= 2 * NumThreads

\* C21 witness: with three workers the buffer holds six outputs, while two workers
\* are still busy, one of them on a source whose turn has not come.
C21_Witness ==
    /\ pc = "running"
    /\ NumThreads = 3
    /\ Cardinality(buffer) = 6
    /\ Cardinality(running) >= 2

\* C22: when nothing fails, every plan that is being generated is eventually
\* generated in full: all its chunks accepted by the sink and the sink finalized.
C22_Progress ==
    (pc = "running") ~>
        (pc = "done" /\ sink.flushed /\ Len(sink.inner) = Len(plan.part_list))

\* C22 witness: workers wait on a full reorder buffer: an idle worker may not start
\* the next source, and the only running producer is the one the sink waits for.
C22_Witness ==
    /\ pc = "running"
    /\ NumThreads = 2
    /\ Cardinality(buffer) = BufferCap
    /\ sources # <<>>
    /\ \A src \in running : src.ordinal = next_to_emit
    /\ running # {}

\* C23: at most one call of the sink (Sink::sink or Sink::flush) is in progress at
\* any moment.
C23_SingleSink ==
    Len(in_sink) <= 1

\* C23 witness: a call of Sink::sink is in progress while other workers are running
\* and completed outputs wait in the buffer.
C23_Witness ==
    /\ pc = "running"
    /\ NumThreads = 3
    /\ Len(in_sink) = 1
    /\ in_sink[1].call = "sink"
    /\ Cardinality(running) >= 2
    /\ \E b \in buffer : b.ordinal = next_to_emit + 1

\* C24: the producers created for a plan are one per part_list entry, in part_list
\* order, each with its part and the plan's part_count; a finished output holds one
\* chunk (row group) per part_list entry, in that order.
C24_OneProducerPerPart ==
    (plan.kind = "plan" /\ pc \in {"running", "done", "failed"} /\ sink # NoSink) =>
        LET started == Len(plan.part_list) - Len(sources)
        IN  /\ started >= 0
            /\ sources = [i \in 1..Len(sources) |->
                             [ordinal |-> started + i,
                              part |-> plan.part_list[started + i],
                              num_parts |-> plan.part_count]]
            /\ \A s \in running :
                  /\ s.ordinal \in 1..started
                  /\ s.part = plan.part_list[s.ordinal]
                  /\ s.num_parts = plan.part_count
            /\ pc = "done" =>
                  sink.inner = [i \in 1..Len(plan.part_list) |->
                                   <<plan.part_list[i], plan.part_count>>]

\* C24 witness: the Parquet output of --part 2 --parts 2 with two threads: the row
\* groups of parts 3 and 4 of 4, in that order.
C24_Witness ==
    /\ pc = "done"
    /\ args.format = "Parquet"
    /\ plan.part_list = <<3, 4>>
    /\ sink.inner = <<(<<3, 4>>), (<<4, 4>>)>>

\* The sum of the lengths of the first n buffers of bufs.
RECURSIVE SumLen(_, _)
SumLen(bufs, n) == IF n = 0 THEN 0 ELSE SumLen(bufs, n - 1) + Len(bufs[n])

\* C25: after every call the sink's chunk count is the number of Sink::sink calls
\* made and its byte count the sum of the lengths of the buffers passed; neither
\* count ever decreases, and Sink::flush changes neither.
C25_SinkStatistics ==
    [][/\ sink'.chunks = Len(calls')
       /\ sink'.bytes = SumLen(calls', Len(calls'))
       /\ sink'.chunks >= sink.chunks
       /\ sink'.bytes >= sink.bytes
       /\ (sink'.flushed /\ ~sink.flushed) =>
             (sink'.chunks = sink.chunks /\ sink'.bytes = sink.bytes)]_vars

\* C25 witness: three calls with buffers of 3, 0 and 2 bytes, the last write failed,
\* and the sink flushed.
C25_Witness ==
    /\ Len(calls) = 3
    /\ Len(calls[1]) = 3 /\ Len(calls[2]) = 0 /\ Len(calls[3]) = 2
    /\ Len(sink.inner) = 2
    /\ sink.chunks = 3
    /\ sink.bytes = 5
    /\ sink.flushed

\* C26 (as claimed): for accepted part / parts and any num_threads >= 1 the
\* conversion of num_threads to i32 keeps its value and the plan is returned with
\* part_count = parts * num_threads and part_list running from
\* (part - 1) * num_threads + 1 to part * num_threads, without wrapping.
C26_ExactArithmetic ==
    (plan # NoPlan /\ ~Atomic /\ FlagsAccepted) =>
        /\ UsizeAsI32(args.num_threads) >= 1
        /\ NatDigits(UsizeAsI32(args.num_threads)) = args.num_threads
        /\ PlanReturned
        /\ plan.part_count >= 1
        /\ NatDigits(plan.part_count) =
              DigitsMul(NatDigits(args.cli_part_count), args.num_threads)
        /\ plan.part_list # <<>>
        /\ plan.part_list[1] >= 1
        /\ NatDigits(plan.part_list[1]) =
              DigitsAdd(DigitsMul(NatDigits(args.cli_part - 1), args.num_threads), <<1>>)
        /\ NatDigits(plan.part_list[Len(plan.part_list)]) =
              DigitsMul(NatDigits(args.cli_part), args.num_threads)

====
